---- MODULE Spec2Model ----
(***************************************************************************)
(* The workflow execution route of ScriptForgeAI                           *)
(* (src/app/api/scriptforge/workflows/execute/route.js): the POST handler  *)
(* that runs every node of a stored workflow in order (full run), and      *)
(* executeSingleAgent, which re-runs one node.  Requests are handled       *)
(* concurrently; JavaScript runs each handler without interruption between *)
(* two awaits, so every action below is the code from one await to the     *)
(* next, together with the effect of the awaited call (a database read, a  *)
(* database write, the answer of the agent).                               *)
(***************************************************************************)
EXTENDS Integers, Sequences, FiniteSets, TLC

\* ------------------------------------------------------------------ bounds
MaxNodes == 2
NumRequests == 2
MaxSaveFailures == 1

\* ------------------------------------------------------------- vocabulary
Reqs == 1..NumRequests

\* the kinds the context restoration of executeSingleAgent recognises
RecognizedKinds ==
  {"story-intelligence", "knowledge-graph", "temporal-reasoning",
   "continuity-validator", "creative-coauthor", "intelligent-recall"}

\* every agent kind of the route: formatAgentOutput also knows cinematic-teaser
AllKinds == RecognizedKinds \cup {"cinematic-teaser"}

\* the kinds the nodes of the modelled workflows carry, and the kind a
\* request can name as agentType
ModelKinds == {"story-intelligence", "cinematic-teaser"}
OverrideKinds == {"knowledge-graph"}

NoKind == "none"
NoNode == 0

\* the absent (undefined) result, and the results an agent can return: a
\* result is opaque to the route; `by` is the kind of the agent that produced
\* it and `run` the request that invoked the agent
NoResult == [by |-> NoKind, run |-> 0]

\* what executeAgent can hand back for one invocation
AgentResults(kind, r) == {[by |-> kind, run |-> r]}

AgentError == "agent failed"
SaveError == "save failed"
NoError == ""

\* workflow.brief and workflow.inputs.manuscript of the stored workflow
Brief == "brief"
Manuscript == "manuscript"
NoText == "<undefined>"

\* ---------------------------------------------------------------- context
Slots ==
  {"storyBrief", "manuscript", "previousResults", "storyContext",
   "knowledgeGraph", "timeline", "continuityReport", "suggestions",
   "memoryBank"}

EmptyResults == [k \in AllKinds |-> NoResult]

\* analysisContext of a workflow that never ran: no slot is present
NoContext ==
  [storyBrief |-> NoText, manuscript |-> NoText,
   previousResults |-> EmptyResults,
   storyContext |-> NoResult, knowledgeGraph |-> NoResult,
   timeline |-> NoResult, continuityReport |-> NoResult,
   suggestions |-> NoResult, memoryBank |-> NoResult]

\* let agentContext = { storyBrief, manuscript, previousResults: {} }
InitialContext(w) ==
  [NoContext EXCEPT !.storyBrief = w.brief, !.manuscript = w.manuscript]

\* the named slot the route restores a recognised kind's result into
SlotOf(kind) ==
  CASE kind = "story-intelligence" -> "storyContext"
    [] kind = "knowledge-graph" -> "knowledgeGraph"
    [] kind = "temporal-reasoning" -> "timeline"
    [] kind = "continuity-validator" -> "continuityReport"
    [] kind = "creative-coauthor" -> "suggestions"
    [] kind = "intelligent-recall" -> "memoryBank"

\* a projection that moves the kind's previous entry into the named slot
ProjectShift(kind, result, ctx) ==
  LET c1 == [ctx EXCEPT !.previousResults[kind] = result]
  IN  IF kind \in RecognizedKinds
        THEN [c1 EXCEPT ![SlotOf(kind)] = ctx.previousResults[kind]]
        ELSE c1

\* previousResults[kind] = result, and the named slot of a recognised kind
Project(kind, result, ctx) ==
  LET c1 == [ctx EXCEPT !.previousResults[kind] = result]
  IN  IF kind \in RecognizedKinds
        THEN [c1 EXCEPT ![SlotOf(kind)] = result]
        ELSE c1

\* Object.keys(agentContext.previousResults)
PreviousAgents(ctx) == {k \in AllKinds : ctx.previousResults[k] # NoResult}

\* whether the object spread copies slot s of ctx (the slot is present)
Present(s, ctx) ==
  CASE s = "previousResults" -> TRUE
    [] s \in {"storyBrief", "manuscript"} -> ctx[s] # NoText
    [] OTHER -> ctx[s] # NoResult

\* { ...a, ...b }
Spread(a, b) == [s \in Slots |-> IF Present(s, b) THEN b[s] ELSE a[s]]

\* --------------------------------------------------------------- documents
NoOutput == [template |-> "none", of |-> NoResult]
NoInput == [storyBrief |-> <<>>, hasManuscript |-> FALSE, previousAgents |-> {}]
NoProgress ==
  [currentNode |-> NoNode, completedNodes |-> <<>>, totalNodes |-> 0,
   errors |-> <<>>]

\* a node as the workflow is authored: pending, nothing recorded
NewNode(id, kind) ==
  [id |-> id,
   data |-> [agentType |-> kind, status |-> "pending", result |-> NoResult,
             output |-> NoOutput, input |-> NoInput, error |-> NoError]]

\* node ids are not positions
IdOf(i) == 10 * i

NewWorkflow(kinds) ==
  [status |-> "idle", lastRun |-> 0, brief |-> Brief, manuscript |-> Manuscript,
   progress |-> NoProgress,
   nodes |-> [i \in DOMAIN kinds |-> NewNode(IdOf(i), kinds[i])],
   analysisContext |-> NoContext]

\* formatAgentOutput: one template per known kind, else the JSON dump
formatAgentOutput(agentType, result) ==
  [template |-> IF agentType \in AllKinds THEN agentType ELSE "json",
   of |-> result]

\* the input snapshot: brief cut to 500 characters plus the marker, the
\* manuscript as a flag, previousResults as its keys
InputSnapshot(ctx) ==
  [storyBrief |-> <<ctx.storyBrief, "...">>,
   hasManuscript |-> ctx.manuscript # "",
   previousAgents |-> PreviousAgents(ctx)]

\* find with a predicate that is always true: the first node
FindNodeFirst(nodes, nodeId) == IF Len(nodes) = 0 THEN 0 ELSE 1

\* workflow.nodes.find(n => n.id === nodeId): the position, 0 when absent
FindNode(nodes, nodeId) ==
  LET S == {i \in DOMAIN nodes : nodes[i].id = nodeId}
  IN  IF S = {} THEN 0 ELSE CHOOSE i \in S : \A j \in S : i <= j

\* ---------------------------------------------------------------- state
VARIABLES
  db,            \* the persisted workflow document
  saveFailures,  \* how many saves have failed so far
  pc,            \* per request: where its handler is suspended
  req,           \* per request: session and body
  wf,            \* per request: the document findOne loaded, as mutated since
  agentContext,  \* per request: let agentContext
  cur,           \* per request: position of `node` in the for-of loop
  results,       \* per request: const results
  err,           \* per request: error.message of the caught error
  resp,          \* per request: the response
  invoked,       \* per request, per node: executeAgent calls made
  ctxIn,         \* per request, per node: context passed to executeAgent
  ctxOut,        \* per request, per node: updatedContext returned
  saveFailed,    \* per request: one of its saves threw
  writes,        \* per request: saves that reached the database
  saved,         \* per request: the document its last successful save stored
  overlap        \* per request: another request was in flight during it

vars ==
  <<db, saveFailures, pc, req, wf, agentContext, cur, results, err,
    resp, invoked, ctxIn, ctxOut, saveFailed, writes, saved, overlap>>

NodeIdx == DOMAIN db.nodes
N == Len(db.nodes)

NoRequest ==
  [session |-> FALSE, workflowId |-> FALSE, owned |-> FALSE,
   singleAgentId |-> NoNode, agentType |-> NoKind]
NoSummary == [agentsExecuted |-> 0, successfulAgents |-> 0]
NoResponse ==
  [status |-> 0, success |-> FALSE, error |-> NoError, summary |-> NoSummary]

\* no request has been received: every handler variable at its default
NoRequestYet ==
  /\ saveFailures = 0
  /\ pc = [r \in Reqs |-> "idle"]
  /\ req = [r \in Reqs |-> NoRequest]
  /\ wf = [r \in Reqs |-> db]
  /\ agentContext = [r \in Reqs |-> NoContext]
  /\ cur = [r \in Reqs |-> 0]
  /\ results = [r \in Reqs |-> <<>>]
  /\ err = [r \in Reqs |-> NoError]
  /\ resp = [r \in Reqs |-> NoResponse]
  /\ invoked = [r \in Reqs |-> [i \in NodeIdx |-> 0]]
  /\ ctxIn = [r \in Reqs |-> [i \in NodeIdx |-> NoContext]]
  /\ ctxOut = [r \in Reqs |-> [i \in NodeIdx |-> NoContext]]
  /\ saveFailed = [r \in Reqs |-> FALSE]
  /\ writes = [r \in Reqs |-> 0]
  /\ saved = [r \in Reqs |-> db]
  /\ overlap = [r \in Reqs |-> FALSE]

Init ==
  /\ \E n \in 1..MaxNodes : \E kinds \in [1..n -> ModelKinds] :
       db = NewWorkflow(kinds)
  /\ NoRequestYet

\* ------------------------------------------------------------ collaborators
\* executeAgent(agentType, context) when it resolves: a result and the context
\* with that result merged in
executeAgent(agentType, ctx, r) ==
  {[result |-> res, updatedContext |-> Project(agentType, res, ctx)] :
     res \in AgentResults(agentType, r)}

\* workflow.save() resolves: the whole document w replaces the stored one
SaveOk(r, w) ==
  /\ db' = w
  /\ writes' = [writes EXCEPT ![r] = @ + 1]
  /\ saved' = [saved EXCEPT ![r] = w]
  /\ UNCHANGED <<saveFailures, saveFailed>>

\* workflow.save() rejects: nothing is stored
SaveFails(r) ==
  /\ saveFailures < MaxSaveFailures
  /\ db' = db
  /\ saveFailures' = saveFailures + 1
  /\ saveFailed' = [saveFailed EXCEPT ![r] = TRUE]
  /\ UNCHANGED <<writes, saved>>

InFlight(r) == pc[r] \notin {"idle", "done"}

\* ------------------------------------------------------------- the request
SingleTargets == {IdOf(i) : i \in 1..(N + 1)}

\* the sessions and bodies a client can send
RequestInputs ==
  {[NoRequest EXCEPT !.workflowId = TRUE, !.owned = TRUE],
   [NoRequest EXCEPT !.session = TRUE, !.owned = TRUE],
   [NoRequest EXCEPT !.session = TRUE, !.workflowId = TRUE]}
  \cup
  {[session |-> TRUE, workflowId |-> TRUE, owned |-> TRUE,
    singleAgentId |-> t, agentType |-> NoKind] :
     t \in {NoNode} \cup SingleTargets}
  \cup
  {[session |-> TRUE, workflowId |-> TRUE, owned |-> TRUE,
    singleAgentId |-> IdOf(i), agentType |-> k] :
     i \in 1..N, k \in OverrideKinds}

Reply(status, success, error) ==
  [status |-> status, success |-> success, error |-> error,
   summary |-> NoSummary]

\* the checks of a handler that forgets the session
RejectionWithoutSessionCheck(q, doc) ==
  IF ~q.workflowId THEN 400
  ELSE IF ~q.owned THEN 404
  ELSE IF q.singleAgentId # NoNode /\ FindNode(doc.nodes, q.singleAgentId) = 0
    THEN 404
  ELSE 0

\* the checks that end a request before anything runs: the status of the
\* rejection, 0 when the request is admitted
Rejection(q, doc) ==
  IF ~q.session THEN 401
  ELSE IF ~q.workflowId THEN 400
  ELSE IF ~q.owned THEN 404
  ELSE IF q.singleAgentId # NoNode /\ FindNode(doc.nodes, q.singleAgentId) = 0
    THEN 404
  ELSE 0

RejectionMessage(q) ==
  IF ~q.session THEN "Unauthorized"
  ELSE IF ~q.workflowId THEN "Workflow ID is required"
  ELSE IF ~q.owned THEN "Workflow not found"
  ELSE "Node not found in workflow"

\* POST up to the dispatch: session, body, findOne, and the node lookup of
\* executeSingleAgent
Request(r) ==
  /\ pc[r] = "idle"
  /\ \E q \in RequestInputs :
       /\ req' = [req EXCEPT ![r] = q]
       /\ IF Rejection(q, db) # 0
            THEN /\ pc' = [pc EXCEPT ![r] = "done"]
                 /\ resp' = [resp EXCEPT ![r] =
                              Reply(Rejection(q, db), FALSE, RejectionMessage(q))]
                 /\ UNCHANGED <<wf, overlap>>
            ELSE /\ pc' = [pc EXCEPT ![r] =
                            IF q.singleAgentId # NoNode THEN "single" ELSE "full"]
                 /\ wf' = [wf EXCEPT ![r] = db]
                 /\ overlap' = [x \in Reqs |->
                      IF x = r THEN \E y \in Reqs \ {r} : InFlight(y)
                      ELSE overlap[x] \/ InFlight(x)]
                 /\ UNCHANGED resp
  /\ UNCHANGED <<db, saveFailures, agentContext, cur, results, err, invoked,
                 ctxIn, ctxOut, saveFailed, writes, saved>>

\* ------------------------------------------------------------- the full run
GenericFailure == Reply(500, FALSE, "Failed to execute workflow")

\* the catch of POST: the generic failure response
Fatal(r) ==
  /\ pc' = [pc EXCEPT ![r] = "done"]
  /\ resp' = [resp EXCEPT ![r] = GenericFailure]

\* workflow.status = 'running', lastRun, progress reset
StartRun(w, r) ==
  [w EXCEPT !.status = "running",
            !.lastRun = r,
            !.progress = [currentNode |->
                            IF Len(w.nodes) > 0 THEN w.nodes[1].id ELSE NoNode,
                          completedNodes |-> <<>>,
                          totalNodes |-> Len(w.nodes),
                          errors |-> <<>>]]

\* POST: "Full workflow execution" up to the first save, then const results
\* and let agentContext
FullBegin(r) ==
  /\ pc[r] = "full"
  /\ LET w == StartRun(wf[r], r) IN
       /\ wf' = [wf EXCEPT ![r] = w]
       /\ \/ /\ SaveOk(r, w)
             /\ pc' = [pc EXCEPT ![r] = "loop"]
             /\ cur' = [cur EXCEPT ![r] = 1]
             /\ results' = [results EXCEPT ![r] = <<>>]
             /\ agentContext' = [agentContext EXCEPT ![r] = InitialContext(w)]
             /\ UNCHANGED resp
          \/ /\ SaveFails(r)
             /\ Fatal(r)
             /\ UNCHANGED <<cur, results, agentContext>>
  /\ UNCHANGED <<req, err, invoked, ctxIn, ctxOut, overlap>>

\* the node the loop is at
Node(r) == wf[r].nodes[cur[r]]

\* progress.currentNode = node.id; node.data.status = 'running'
MarkRunning(w, i) ==
  [w EXCEPT !.progress.currentNode = w.nodes[i].id,
            !.nodes[i].data.status = "running"]

\* the loop body up to its first save
NodeRunning(r) ==
  /\ pc[r] = "loop"
  /\ cur[r] <= Len(wf[r].nodes)
  /\ LET w == MarkRunning(wf[r], cur[r]) IN
       /\ wf' = [wf EXCEPT ![r] = w]
       /\ \/ /\ SaveOk(r, w)
             /\ pc' = [pc EXCEPT ![r] = "input"]
             /\ UNCHANGED err
          \/ /\ SaveFails(r)
             /\ pc' = [pc EXCEPT ![r] = "catch"]
             /\ err' = [err EXCEPT ![r] = SaveError]
  /\ UNCHANGED <<req, agentContext, cur, results, resp, invoked, ctxIn,
                 ctxOut, overlap>>

\* node.data.input = {...}, the second save, and the call of executeAgent
NodeInput(r) ==
  /\ pc[r] = "input"
  /\ LET w == [wf[r] EXCEPT !.nodes[cur[r]].data.input =
                               InputSnapshot(agentContext[r])] IN
       /\ wf' = [wf EXCEPT ![r] = w]
       /\ \/ /\ SaveOk(r, w)
             /\ pc' = [pc EXCEPT ![r] = "agent"]
             /\ invoked' = [invoked EXCEPT ![r][cur[r]] = @ + 1]
             /\ ctxIn' = [ctxIn EXCEPT ![r][cur[r]] = agentContext[r]]
             /\ UNCHANGED err
          \/ /\ SaveFails(r)
             /\ pc' = [pc EXCEPT ![r] = "catch"]
             /\ err' = [err EXCEPT ![r] = SaveError]
             /\ UNCHANGED <<invoked, ctxIn>>
  /\ UNCHANGED <<req, agentContext, cur, results, resp, ctxOut, overlap>>

\* the success record without the push to progress.completedNodes
MarkSuccessUncounted(w, i, agentType, result) ==
  [w EXCEPT !.nodes[i].data.status = "success",
            !.nodes[i].data.result = result,
            !.nodes[i].data.output = formatAgentOutput(agentType, result)]

\* node.data.status = 'success', result, output, completedNodes.push
MarkSuccess(w, i, agentType, result) ==
  [w EXCEPT !.nodes[i].data.status = "success",
            !.nodes[i].data.result = result,
            !.nodes[i].data.output = formatAgentOutput(agentType, result),
            !.progress.completedNodes = Append(@, w.nodes[i].id)]

\* executeAgent resolves: the context advances, the result is recorded and
\* saved; the loop goes on to the next node
AgentReturns(r) ==
  /\ pc[r] = "agent"
  /\ LET agentType == Node(r).data.agentType IN
     \E out \in executeAgent(agentType, agentContext[r], r) :
       LET w == MarkSuccess(wf[r], cur[r], agentType, out.result) IN
       /\ agentContext' = [agentContext EXCEPT ![r] = out.updatedContext]
       /\ ctxOut' = [ctxOut EXCEPT ![r][cur[r]] = out.updatedContext]
       /\ results' = [results EXCEPT ![r] =
                        Append(@, [nodeId |-> Node(r).id,
                                   agentType |-> agentType,
                                   result |-> out.result])]
       /\ wf' = [wf EXCEPT ![r] = w]
       /\ \/ /\ SaveOk(r, w)
             /\ pc' = [pc EXCEPT ![r] = "loop"]
             /\ cur' = [cur EXCEPT ![r] = @ + 1]
             /\ UNCHANGED err
          \/ /\ SaveFails(r)
             /\ pc' = [pc EXCEPT ![r] = "catch"]
             /\ err' = [err EXCEPT ![r] = SaveError]
             /\ UNCHANGED cur
  /\ UNCHANGED <<req, resp, invoked, ctxIn, overlap>>

\* executeAgent rejects: control enters the catch of the loop body
AgentThrows(r) ==
  /\ pc[r] = "agent"
  /\ pc' = [pc EXCEPT ![r] = "catch"]
  /\ err' = [err EXCEPT ![r] = AgentError]
  /\ UNCHANGED <<db, saveFailures, req, wf, agentContext, cur, results, resp,
                 invoked, ctxIn, ctxOut, saveFailed, writes, saved, overlap>>

\* node.data.status = 'error', error, progress.errors.push
MarkError(w, i, message) ==
  [w EXCEPT !.nodes[i].data.status = "error",
            !.nodes[i].data.error = message,
            !.progress.errors =
               Append(@, [nodeId |-> w.nodes[i].id, error |-> message])]

\* `break` in place of `continue`: past the last node
AfterCatchBreak(i) == i + MaxNodes

\* where the loop goes after the catch block: `continue`
AfterCatch(i) == i + 1

\* the catch of the loop body: record the error, save, continue
NodeCatch(r) ==
  /\ pc[r] = "catch"
  /\ LET w == MarkError(wf[r], cur[r], err[r]) IN
       /\ wf' = [wf EXCEPT ![r] = w]
       /\ \/ /\ SaveOk(r, w)
             /\ pc' = [pc EXCEPT ![r] = "loop"]
             /\ cur' = [cur EXCEPT ![r] = AfterCatch(@)]
             /\ UNCHANGED resp
          \/ /\ SaveFails(r)
             /\ Fatal(r)
             /\ UNCHANGED cur
  /\ UNCHANGED <<req, agentContext, results, err, invoked, ctxIn, ctxOut,
                 overlap>>

\* the final status with the two tests in the wrong order
FinalStatusErrorsFirst(progress) ==
  IF Len(progress.errors) > 0 THEN "partial"
  ELSE IF Len(progress.completedNodes) = 0 THEN "error"
  ELSE "completed"

\* allFailed ? 'error' : (hasErrors ? 'partial' : 'completed')
FinalStatus(progress) ==
  IF Len(progress.completedNodes) = 0 THEN "error"
  ELSE IF Len(progress.errors) > 0 THEN "partial"
  ELSE "completed"

\* the end of the run without the final status
ConcludeWithoutStatus(w, ctx) ==
  [w EXCEPT !.progress.currentNode = NoNode,
            !.analysisContext = ctx]

\* status, currentNode = undefined, analysisContext = agentContext
Conclude(w, ctx) ==
  [w EXCEPT !.status = FinalStatus(w.progress),
            !.progress.currentNode = NoNode,
            !.analysisContext = ctx]

\* generateExecutionSummary: the two counts
generateExecutionSummary(rs, ctx) ==
  [agentsExecuted |-> Len(rs),
   successfulAgents |-> Cardinality({i \in DOMAIN rs : "error" \notin DOMAIN rs[i].result})]

\* after the loop: final status, last save, the response
Finish(r) ==
  /\ pc[r] = "loop"
  /\ cur[r] > Len(wf[r].nodes)
  /\ LET w == Conclude(wf[r], agentContext[r]) IN
       /\ wf' = [wf EXCEPT ![r] = w]
       /\ \/ /\ SaveOk(r, w)
             /\ pc' = [pc EXCEPT ![r] = "done"]
             /\ resp' = [resp EXCEPT ![r] =
                  [status |-> 200,
                   success |-> Len(w.progress.completedNodes) # 0,
                   error |-> NoError,
                   summary |->
                     generateExecutionSummary(results[r], agentContext[r])]]
          \/ /\ SaveFails(r)
             /\ Fatal(r)
  /\ UNCHANGED <<req, agentContext, cur, results, err, invoked, ctxIn, ctxOut,
                 overlap>>

\* ------------------------------------------------------ the single-node run
RECURSIVE CollectResults(_, _, _, _)
\* for (const n of workflow.nodes) if (n.id !== nodeId && n.data.result) ...
CollectResults(nodes, nodeId, i, ctx) ==
  IF i > Len(nodes) THEN ctx
  ELSE CollectResults(nodes, nodeId, i + 1,
         IF nodes[i].id # nodeId /\ nodes[i].data.result # NoResult
           THEN Project(nodes[i].data.agentType, nodes[i].data.result, ctx)
           ELSE ctx)

\* a context built from the nodes positioned before the target only
RebuiltContextFromEarlier(w, nodeId) ==
  CollectResults(SubSeq(w.nodes, 1, FindNode(w.nodes, nodeId) - 1), nodeId, 1,
                 InitialContext(w))

\* the context executeSingleAgent builds for its target
RebuiltContext(w, nodeId) == CollectResults(w.nodes, nodeId, 1, InitialContext(w))

\* the position of the node executeSingleAgent works on
Target(r) == FindNode(wf[r].nodes, req[r].singleAgentId)

\* the kind of the node, whatever the request names
NodeAgentType(r) == wf[r].nodes[Target(r)].data.agentType

\* agentType || node.data.agentType
EffectiveAgentType(r) ==
  IF req[r].agentType # NoKind THEN req[r].agentType
  ELSE wf[r].nodes[Target(r)].data.agentType

\* executeSingleAgent from the context build to the first save and the call
\* of executeAgent
SingleBegin(r) ==
  /\ pc[r] = "single"
  /\ LET t == Target(r)
         ctx == RebuiltContext(wf[r], req[r].singleAgentId)
         w == [wf[r] EXCEPT !.nodes[t].data.status = "running"] IN
       /\ wf' = [wf EXCEPT ![r] = w]
       /\ agentContext' = [agentContext EXCEPT ![r] = ctx]
       /\ \/ /\ SaveOk(r, w)
             /\ pc' = [pc EXCEPT ![r] = "singleAgent"]
             /\ invoked' = [invoked EXCEPT ![r][t] = @ + 1]
             /\ ctxIn' = [ctxIn EXCEPT ![r][t] = ctx]
             /\ UNCHANGED err
          \/ /\ SaveFails(r)
             /\ pc' = [pc EXCEPT ![r] = "singleCatch"]
             /\ err' = [err EXCEPT ![r] = SaveError]
             /\ UNCHANGED <<invoked, ctxIn>>
  /\ UNCHANGED <<req, cur, results, resp, ctxOut, overlap>>

\* "Update node with results" and "Update workflow analysis context"
RecordSingle(w, t, agentType, out, ctx) ==
  [w EXCEPT !.nodes[t].data.status = "success",
            !.nodes[t].data.result = out.result,
            !.nodes[t].data.output = formatAgentOutput(agentType, out.result),
            !.nodes[t].data.input = InputSnapshot(ctx),
            !.analysisContext = Spread(@, out.updatedContext)]

\* executeAgent resolves in executeSingleAgent: record, save, respond
SingleAgentReturns(r) ==
  /\ pc[r] = "singleAgent"
  /\ \E out \in executeAgent(EffectiveAgentType(r), agentContext[r], r) :
       LET w == RecordSingle(wf[r], Target(r), EffectiveAgentType(r), out,
                             agentContext[r]) IN
       /\ wf' = [wf EXCEPT ![r] = w]
       /\ ctxOut' = [ctxOut EXCEPT ![r][Target(r)] = out.updatedContext]
       /\ \/ /\ SaveOk(r, w)
             /\ pc' = [pc EXCEPT ![r] = "done"]
             /\ resp' = [resp EXCEPT ![r] = Reply(200, TRUE, NoError)]
             /\ UNCHANGED err
          \/ /\ SaveFails(r)
             /\ pc' = [pc EXCEPT ![r] = "singleCatch"]
             /\ err' = [err EXCEPT ![r] = SaveError]
             /\ UNCHANGED resp
  /\ UNCHANGED <<req, agentContext, cur, results, invoked, ctxIn, overlap>>

\* executeAgent rejects in executeSingleAgent
SingleAgentThrows(r) ==
  /\ pc[r] = "singleAgent"
  /\ pc' = [pc EXCEPT ![r] = "singleCatch"]
  /\ err' = [err EXCEPT ![r] = AgentError]
  /\ UNCHANGED <<db, saveFailures, req, wf, agentContext, cur, results, resp,
                 invoked, ctxIn, ctxOut, saveFailed, writes, saved, overlap>>

\* the catch of executeSingleAgent: node.data.status = 'error', error, save;
\* a save that throws here reaches the catch of POST
SingleCatch(r) ==
  /\ pc[r] = "singleCatch"
  /\ LET t == Target(r)
         w == [wf[r] EXCEPT !.nodes[t].data.status = "error",
                            !.nodes[t].data.error = err[r]] IN
       /\ wf' = [wf EXCEPT ![r] = w]
       /\ \/ /\ SaveOk(r, w)
             /\ pc' = [pc EXCEPT ![r] = "done"]
             /\ resp' = [resp EXCEPT ![r] = Reply(500, FALSE, err[r])]
          \/ /\ SaveFails(r)
             /\ Fatal(r)
  /\ UNCHANGED <<req, agentContext, cur, results, err, invoked, ctxIn, ctxOut,
                 overlap>>

\* ------------------------------------------------------------ specification
Step(r) ==
  \/ Request(r)
  \/ FullBegin(r)
  \/ NodeRunning(r)
  \/ NodeInput(r)
  \/ AgentReturns(r)
  \/ AgentThrows(r)
  \/ NodeCatch(r)
  \/ Finish(r)
  \/ SingleBegin(r)
  \/ SingleAgentReturns(r)
  \/ SingleAgentThrows(r)
  \/ SingleCatch(r)

Next == \E r \in Reqs : Step(r)

\* any number of requests against the one workflow may overlap
Spec == Init /\ [][Next]_vars

\* a handler whose awaited call has settled is resumed, and every call of
\* executeAgent settles; when a client sends a request is up to the client
RunStep(r) ==
  \/ FullBegin(r)
  \/ NodeRunning(r)
  \/ NodeInput(r)
  \/ AgentReturns(r)
  \/ AgentThrows(r)
  \/ NodeCatch(r)
  \/ Finish(r)
  \/ SingleBegin(r)
  \/ SingleAgentReturns(r)
  \/ SingleAgentThrows(r)
  \/ SingleCatch(r)

FairSpec == Spec /\ \A r \in Reqs : WF_vars(RunStep(r))

\* the client that waits for the response before it sends the next request
SerialRequest(r) ==
  /\ \A y \in Reqs : ~InFlight(y)
  /\ Request(r)

SerialNext == \E r \in Reqs : SerialRequest(r) \/ RunStep(r)

SerialFairSpec ==
  Init /\ [][SerialNext]_vars /\ \A r \in Reqs : WF_vars(RunStep(r))

\* ------------------------------------------------------------------ claims
IsFull(r) == pc[r] # "idle" /\ req[r].singleAgentId = NoNode
IsSingle(r) == pc[r] # "idle" /\ req[r].singleAgentId # NoNode
FullRunFinished(r) == IsFull(r) /\ pc[r] = "done" /\ resp[r].status = 200
Completed(w) == w.progress.completedNodes
Errors(w) == w.progress.errors
Terminal(status) == status \in {"success", "error"}

\* C1: when a full run has finished, the completed nodes and the recorded
\* errors together count every node of the workflow exactly once.
C1_EveryNodeCountedOnce ==
  \A r \in Reqs :
    FullRunFinished(r) =>
      Len(Completed(wf[r])) + Len(Errors(wf[r])) = Len(wf[r].nodes)

\* the status the claim expects of a finished document
StatusRule(d) ==
  /\ d.status \in {"error", "partial", "completed"}
  /\ d.status = "error" <=> Completed(d) = <<>>
  /\ Completed(d) # <<>> => (d.status = "partial" <=> Errors(d) # <<>>)

\* C2: the step that finishes a full run stores status 'error' exactly when
\* completedNodes is empty, else 'partial' exactly when errors is not empty,
\* else 'completed'; never 'idle' or 'running'.
C2_FinalStatus ==
  [][\A r \in Reqs :
       (pc[r] # "done" /\ FullRunFinished(r)') => StatusRule(db')]_vars

C2_Witness ==
  \E r \in Reqs :
    /\ FullRunFinished(r)
    /\ db = wf[r]
    /\ db.status = "partial"
    /\ Len(Completed(db)) = 1
    /\ Len(Errors(db)) = 1

\* C3: a full run calls executeAgent exactly once for every node, in stored
\* order; when the call for a node starts, every earlier node has been called,
\* has a terminal status, and that status is stored.
C3_EveryNodeInvokedOnceInOrder ==
  \A r \in Reqs :
    IsFull(r) =>
      /\ \A j \in NodeIdx : invoked[r][j] <= 1
      /\ \A j \in NodeIdx : \A i \in 1..(j - 1) :
           invoked[r][j] = 1 =>
             /\ invoked[r][i] = 1
             /\ Terminal(wf[r].nodes[i].data.status)
             /\ saved[r].nodes[i].data.status = wf[r].nodes[i].data.status
      /\ FullRunFinished(r) => \A j \in NodeIdx : invoked[r][j] = 1

\* the context returned by the last node before j that ended with success
LastSuccessBefore(r, j) ==
  LET S == {i \in 1..(j - 1) : wf[r].nodes[i].data.status = "success"}
  IN  IF S = {} THEN 0 ELSE CHOOSE i \in S : \A k \in S : k <= i

LastGoodContext(r, j) ==
  IF LastSuccessBefore(r, j) = 0 THEN InitialContext(wf[r])
  ELSE ctxOut[r][LastSuccessBefore(r, j)]

\* C4: in a full run the context passed to the agent of a node is the context
\* returned by the last earlier node that ended with status 'success' (the
\* initial context if there is none): a node that ended with 'error' did not
\* advance it.
C4_FailedNodeDoesNotAdvanceContext ==
  \A r \in Reqs :
    IsFull(r) =>
      \A j \in NodeIdx :
        invoked[r][j] > 0 => ctxIn[r][j] = LastGoodContext(r, j)

\* C5: a step of a single-node run that no other request overlaps leaves
\* every stored node other than its target as it is.
C5_SingleRunLeavesOtherNodes ==
  [][\A r \in Reqs :
       (IsSingle(r) /\ InFlight(r) /\ ~overlap[r]) =>
         \A i \in NodeIdx :
           db.nodes[i].id # req[r].singleAgentId =>
             db'.nodes[i] = db.nodes[i]]_vars

C5_Witness ==
  \E r \in Reqs :
    /\ IsSingle(r)
    /\ ~overlap[r]
    /\ pc[r] = "done"
    /\ writes[r] = 2
    /\ \E i \in NodeIdx :
         /\ db.nodes[i].id # req[r].singleAgentId
         /\ db.nodes[i].data.status = "success"
         /\ db.nodes[i].data.result.run # r

\* C6: no step of a single-node run changes the stored status or the stored
\* progress of the workflow.
C6_SingleRunLeavesStatusAndProgress ==
  [][\A r \in Reqs :
       (IsSingle(r) /\ writes'[r] # writes[r]) =>
         /\ db'.status = db.status
         /\ db'.progress = db.progress]_vars

\* C7: a request that arrives while the stored status is 'running' is turned
\* away at once: it is never admitted to run beside the run in progress.
C7_RunningWorkflowRejectsRequests ==
  [][\A r \in Reqs :
       (pc[r] = "idle" /\ db.status = "running") =>
         pc'[r] \in {"idle", "done"}]_vars

\* the status the claim names for a request it calls rejected, else 0
RejectStatus(q) ==
  IF ~q.session THEN 401
  ELSE IF ~q.workflowId THEN 400
  ELSE IF ~q.owned THEN 404
  ELSE IF q.singleAgentId # NoNode
          /\ \A i \in NodeIdx : db.nodes[i].id # q.singleAgentId THEN 404
  ELSE 0

\* C8: a request without a session (401), without workflowId (400), for a
\* workflow the caller does not own (404) or naming a node the workflow does
\* not have (404) is answered at once with that status, stores nothing and
\* invokes no agent.
C8_RejectedRequestChangesNothing ==
  \A r \in Reqs :
    (pc[r] # "idle" /\ RejectStatus(req[r]) # 0) =>
      /\ pc[r] = "done"
      /\ resp[r].status = RejectStatus(req[r])
      /\ ~resp[r].success
      /\ writes[r] = 0
      /\ \A i \in NodeIdx : invoked[r][i] = 0

C8_Witness ==
  \E r1, r2 \in Reqs :
    /\ pc[r1] = "done" /\ ~req[r1].session /\ resp[r1].status = 401
    /\ pc[r2] = "done" /\ req[r2].owned /\ req[r2].singleAgentId # NoNode
    /\ resp[r2].status = 404

\* C9: once a save of a full run has failed, the run is over: no agent is
\* invoked, the failure is not recorded in progress.errors, and the response
\* is the generic failure.
C9_SaveFailureIsFatal ==
  \A r \in Reqs :
    (IsFull(r) /\ saveFailed[r]) =>
      /\ pc[r] \in {"catch", "done"}
      /\ \A k \in DOMAIN Errors(wf[r]) : Errors(wf[r])[k].error # SaveError
      /\ pc[r] = "done" => resp[r] = GenericFailure

\* the end of a full run as the claim describes it
RunComplete(r) ==
  /\ FullRunFinished(r)
  /\ \A j \in NodeIdx : invoked[r][j] = 1 /\ Terminal(db.nodes[j].data.status)
  /\ db = wf[r]
  /\ db.status \in {"completed", "partial", "error"}
  /\ db.progress.currentNode = NoNode
  /\ db.analysisContext = LastGoodContext(r, N + 1)

\* C10: with fair scheduling, a full run that has started comes to its end;
\* if none of its saves failed, it ends with every node attempted, the final
\* status stored, progress.currentNode cleared and analysisContext equal to
\* the accumulated context.
C10_FullRunFinishes ==
  \A r \in Reqs :
    (pc[r] = "full") ~> (pc[r] = "done" /\ (~saveFailed[r] => RunComplete(r)))

C10_Witness ==
  \E r \in Reqs :
    /\ RunComplete(r)
    /\ ~saveFailed[r]
    /\ N = 2
    /\ db.nodes[1].data.status = "error"
    /\ db.nodes[2].data.status = "success"

\* ------------------------------------------------ the projection on its own
\* the accumulation step of the context (the body of the loop that restores
\* results into the context), applied to any kind and any result a request
\* can hold for it, the absent result included
ApplyProject(r) ==
  /\ \E k \in AllKinds : \E res \in AgentResults(k, r) \cup {NoResult} :
       agentContext' = [agentContext EXCEPT ![r] = Project(k, res, @)]
  /\ UNCHANGED <<db, saveFailures, pc, req, wf, cur, results, err, resp,
                 invoked, ctxIn, ctxOut, saveFailed, writes, saved, overlap>>

ProjectNext == \E r \in Reqs : ApplyProject(r)

\* every context the projection can build, in any order of application
ProjectSpec == Init /\ [][ProjectNext]_vars

\* C11: projecting a result into a context twice gives the same context as
\* projecting it once; the projection sets previousResults[k], sets the named
\* slot of a recognised kind, and changes nothing else, so an unrecognised
\* kind changes only previousResults.
C11_ProjectIdempotent ==
  \A r \in Reqs : \A k \in AllKinds :
    \A res \in AgentResults(k, r) \cup {NoResult} :
      LET c == agentContext[r]
          p == Project(k, res, c) IN
        /\ Project(k, res, p) = p
        /\ p.previousResults = [c.previousResults EXCEPT ![k] = res]
        /\ k \in RecognizedKinds => p[SlotOf(k)] = res
        /\ \A s \in Slots \ {"previousResults"} :
             (k \notin RecognizedKinds \/ s # SlotOf(k)) => p[s] = c[s]

\* a context that holds the projection of a recognised and of an
\* unrecognised kind, and from which a recognised kind was projected away
C11_Witness ==
  \E r \in Reqs :
    /\ agentContext[r].storyContext # NoResult
    /\ agentContext[r].previousResults["story-intelligence"] =
         agentContext[r].storyContext
    /\ agentContext[r].previousResults["cinematic-teaser"] # NoResult
    /\ agentContext[r].knowledgeGraph # NoResult
    /\ agentContext[r].timeline = NoResult

\* the changes of a node's status the node state machine allows; a terminal
\* status gives way to 'running' only in the step that starts a run of the node
AllowedTransition(from, to, rerun) ==
  \/ from = "pending" /\ to = "running"
  \/ from = "running" /\ to \in {"success", "error"}
  \/ Terminal(from) /\ to = "running" /\ rerun

\* C12: every change of a node's stored status is pending -> running,
\* running -> success, running -> error, or success/error -> running in the
\* step that starts a run of that node; no node returns to pending and none
\* becomes success or error without 'running' having been stored before.
C12_NodeStatusTransitions ==
  [][\A i \in NodeIdx :
       db'.nodes[i].data.status # db.nodes[i].data.status =>
         AllowedTransition(db.nodes[i].data.status, db'.nodes[i].data.status,
                           \E r \in Reqs : /\ pc[r] \in {"single", "loop"}
                                           /\ pc'[r] # pc[r])]_vars

\* a save of request r reaches the database in this step
Checkpoint(r) == writes'[r] = writes[r] + 1

IsPrefix(s, t) == Len(s) <= Len(t) /\ SubSeq(t, 1, Len(s)) = s
ErrorIds(w) == [k \in DOMAIN Errors(w) |-> Errors(w)[k].nodeId]
Range(s) == {s[k] : k \in DOMAIN s}
InNodeOrder(w, ids) ==
  \A a, b \in DOMAIN ids :
    a < b => FindNode(w.nodes, ids[a]) < FindNode(w.nodes, ids[b])

\* what the claim says of a checkpoint of full run r, but for the position of
\* currentNode: `before` is the document of the run's previous checkpoint,
\* `now` the document stored, `done` the positions the run has finished with
ProgressRecord(r, before, now, done) ==
  /\ now.progress.totalNodes = Len(wf[r].nodes)
  /\ writes[r] > 0 =>
       /\ IsPrefix(Completed(before), Completed(now))
       /\ IsPrefix(ErrorIds(before), ErrorIds(now))
  /\ InNodeOrder(now, Completed(now))
  /\ InNodeOrder(now, ErrorIds(now))
  /\ Range(Completed(now)) \cup Range(ErrorIds(now)) =
       {now.nodes[i].id : i \in done}
  /\ \A i \in done : Terminal(now.nodes[i].data.status)

\* C13 as stated: at every checkpoint of a full run that no other request
\* overlaps, totalNodes is the node count, completedNodes and the ids of
\* errors grow by appending and are in node order, together they are the
\* nodes the run has finished with, and all of these are positioned before or
\* at progress.currentNode.
C13_ProgressAtEveryCheckpoint ==
  [][\A r \in Reqs :
       (IsFull(r) /\ ~overlap[r] /\ Checkpoint(r)) =>
         LET done == {i \in NodeIdx : i < cur'[r]} IN
           /\ ProgressRecord(r, saved[r], db', done)
           /\ \A i \in done :
                i <= FindNode(db'.nodes, db'.progress.currentNode)]_vars

\* C13, amended: the same at every checkpoint, with the position bound at the
\* checkpoints taken while the run is in progress; the last checkpoint of the
\* run stores progress.currentNode cleared, and only that one does.
C13_ProgressAtCheckpointsInProgress ==
  [][\A r \in Reqs :
       (IsFull(r) /\ ~overlap[r] /\ Checkpoint(r)) =>
         LET done == {i \in NodeIdx : i < cur'[r]} IN
           /\ ProgressRecord(r, saved[r], db', done)
           /\ pc'[r] # "done" =>
                \A i \in done :
                  i <= FindNode(db'.nodes, db'.progress.currentNode)
           /\ pc'[r] = "done" <=> db'.progress.currentNode = NoNode]_vars

C13_Witness ==
  \E r \in Reqs :
    /\ FullRunFinished(r)
    /\ ~overlap[r]
    /\ N = 2
    /\ db = wf[r]
    /\ Completed(db) = <<IdOf(2)>>
    /\ ErrorIds(db) = <<IdOf(1)>>
    /\ db.progress.currentNode = NoNode

\* C14: a stored node with status 'error' has no result and no rendered
\* output, whatever the node held before the run that recorded the failure.
C14_ErrorNodeHasNoResult ==
  \A i \in NodeIdx :
    db.nodes[i].data.status = "error" =>
      /\ db.nodes[i].data.result = NoResult
      /\ db.nodes[i].data.output = NoOutput

\* C15: a stored node holds an error message only while its status is
\* 'error': a pending, running or successful node has none, also after an
\* earlier failure of the node.
C15_ErrorDetailOnlyWithErrorStatus ==
  \A i \in NodeIdx :
    db.nodes[i].data.status # "error" => db.nodes[i].data.error = NoError

\* request r calls executeAgent for the node at position i in this step
Invokes(r, i) == invoked'[r][i] = invoked[r][i] + 1

\* request r stores the failure of the agent it called for position i
StoresAgentFailure(r, i) ==
  /\ pc[r] \in {"catch", "singleCatch"}
  /\ err[r] = AgentError
  /\ Checkpoint(r)
  /\ i = (IF IsSingle(r) THEN Target(r) ELSE cur[r])

\* C16: when executeAgent is called for a node, in a full run or a
\* single-node run, the node is stored with status 'running' and with the
\* input snapshot of the context passed to the agent, previousAgents being
\* the kinds in that context's previousResults; and when the failure of the
\* call is stored, the node still carries that snapshot.
C16_SnapshotStoredBeforeInvocation ==
  [][\A r \in Reqs : \A i \in NodeIdx :
       /\ Invokes(r, i) =>
            /\ db'.nodes[i].data.status = "running"
            /\ db'.nodes[i].data.input = InputSnapshot(ctxIn'[r][i])
            /\ db'.nodes[i].data.input.previousAgents =
                 {k \in AllKinds : ctxIn'[r][i].previousResults[k] # NoResult}
       /\ StoresAgentFailure(r, i) =>
            db'.nodes[i].data.input = InputSnapshot(ctxIn[r][i])]_vars

\* --------------------------------------- re-runs on a workflow that has run
RerunNodes == 3

RECURSIVE AfterSingleRuns(_, _, _)
\* the document that successful single-node runs leave behind: the node at
\* position i was run by the earlier request runs[i] (0: never run), the
\* nodes taken in stored order
AfterSingleRuns(w, i, runs) ==
  IF i > Len(w.nodes) THEN w
  ELSE IF runs[i] = 0 THEN AfterSingleRuns(w, i + 1, runs)
  ELSE LET kind == w.nodes[i].data.agentType
           ctx == RebuiltContext(w, w.nodes[i].id)
           out == CHOOSE o \in executeAgent(kind, ctx, runs[i]) : TRUE
       IN  AfterSingleRuns(RecordSingle(w, i, kind, out, ctx), i + 1, runs)

RerunInit ==
  /\ \E kinds \in [1..RerunNodes -> ModelKinds] :
     \E runs \in [1..RerunNodes -> 0..NumRequests] :
       db = AfterSingleRuns(NewWorkflow(kinds), 1, runs)
  /\ NoRequestYet

\* one request at a time, up to the call of executeAgent in executeSingleAgent
RerunNext == \E r \in Reqs : SerialRequest(r) \/ SingleBegin(r)

RerunSpec == RerunInit /\ [][RerunNext]_vars

\* the positions other than the target's whose node is of kind k and carries
\* a result, and the result the claim expects under previousResults[k]
OtherNodesWithResult(w, nodeId, k) ==
  {i \in DOMAIN w.nodes :
     /\ w.nodes[i].id # nodeId
     /\ w.nodes[i].data.agentType = k
     /\ w.nodes[i].data.result # NoResult}

ExpectedPrevious(w, nodeId, k) ==
  LET S == OtherNodesWithResult(w, nodeId, k)
  IN  IF S = {} THEN NoResult
      ELSE w.nodes[CHOOSE i \in S : \A j \in S : j <= i].data.result

\* C17: the context a single-node run passes to the agent holds, under
\* previousResults[k], the result of the last node in stored order that is
\* not the target, is of kind k and carries a result, and nothing when there
\* is no such node; the target's own result is left out and nodes after the
\* target count like nodes before it.
C17_SingleRunContextFromAllOtherNodes ==
  \A r \in Reqs :
    (IsSingle(r) /\ pc[r] = "singleAgent") =>
      \A k \in AllKinds :
        ctxIn[r][Target(r)].previousResults[k] =
          ExpectedPrevious(wf[r], req[r].singleAgentId, k)

\* the target in the middle holds a result of its own kind alone; the nodes
\* before and after it are of one kind with different results, and the one
\* after the target is in the context
C17_Witness ==
  \E r \in Reqs :
    /\ IsSingle(r) /\ pc[r] = "singleAgent"
    /\ Target(r) = 2
    /\ wf[r].nodes[2].data.result # NoResult
    /\ wf[r].nodes[1].data.agentType = wf[r].nodes[3].data.agentType
    /\ wf[r].nodes[2].data.agentType # wf[r].nodes[1].data.agentType
    /\ wf[r].nodes[1].data.result # NoResult
    /\ wf[r].nodes[3].data.result # NoResult
    /\ wf[r].nodes[1].data.result # wf[r].nodes[3].data.result
    /\ ctxIn[r][2].previousResults[wf[r].nodes[3].data.agentType] =
         wf[r].nodes[3].data.result
    /\ ctxIn[r][2].previousResults[wf[r].nodes[2].data.agentType] = NoResult

\* the checkpoint that stores the success of single-node run r
StoresSingleSuccess(r) ==
  IsSingle(r) /\ pc[r] = "singleAgent" /\ pc'[r] = "done"

\* additive merge: a slot the returned context holds takes its value, every
\* other slot keeps the previous one
AdditiveMerge(previous, returned, merged) ==
  \A s \in Slots :
    merged[s] = (IF Present(s, returned) THEN returned[s] ELSE previous[s])

\* C18: the checkpoint that stores the success of a single-node run stores as
\* analysisContext the additive merge of the previous analysisContext with
\* the context the agent returned; no other checkpoint of a single-node run,
\* and so no failed single-node run, changes analysisContext.
C18_AnalysisContextMergedAdditively ==
  [][\A r \in Reqs :
       (IsSingle(r) /\ Checkpoint(r)) =>
         IF StoresSingleSuccess(r)
           THEN AdditiveMerge(db.analysisContext, ctxOut'[r][Target(r)],
                              db'.analysisContext)
           ELSE db'.analysisContext = db.analysisContext]_vars

\* the nodes of the document of run r that ended with status 'success'
Succeeded(r) ==
  {i \in DOMAIN wf[r].nodes : wf[r].nodes[i].data.status = "success"}

\* C19: the summary a full run returns reports as agentsExecuted the number
\* of nodes of the workflow and as successfulAgents the number of nodes that
\* ended with status 'success'; stated for the runs in which every save
\* succeeded and every node's agent was called.
C19_SummaryCountsAttemptedAndSuccessful ==
  \A r \in Reqs :
    (/\ FullRunFinished(r)
     /\ ~saveFailed[r]
     /\ \A j \in NodeIdx : invoked[r][j] = 1) =>
      /\ resp[r].summary.agentsExecuted = Len(wf[r].nodes)
      /\ resp[r].summary.successfulAgents = Cardinality(Succeeded(r))

\* ------------------------------------------- runs executed one after another
RECURSIVE FullLoop(_, _, _, _, _)
\* the loop of a full run of request r on document w from position i on, all
\* saves succeeding: ok[i] tells whether executeAgent resolves for node i
FullLoop(w, ctx, i, ok, r) ==
  IF i > Len(w.nodes) THEN Conclude(w, ctx)
  ELSE LET kind == w.nodes[i].data.agentType
           w1 == [MarkRunning(w, i) EXCEPT
                    !.nodes[i].data.input = InputSnapshot(ctx)]
           out == CHOOSE o \in executeAgent(kind, ctx, r) : TRUE
       IN  IF ok[i]
             THEN FullLoop(MarkSuccess(w1, i, kind, out.result),
                           out.updatedContext, i + 1, ok, r)
             ELSE FullLoop(MarkError(w1, i, AgentError), ctx, i + 1, ok, r)

\* the document a full run of request r leaves when it starts from d
RunFull(d, ok, r) == FullLoop(StartRun(d, r), InitialContext(d), 1, ok, r)

\* the document a single-node run of request r leaves when it starts from d
RunSingle(d, q, ok, r) ==
  LET t == FindNode(d.nodes, q.singleAgentId)
      kind == IF q.agentType # NoKind THEN q.agentType
              ELSE d.nodes[t].data.agentType
      ctx == RebuiltContext(d, q.singleAgentId)
      w1 == [d EXCEPT !.nodes[t].data.status = "running"]
      out == CHOOSE o \in executeAgent(kind, ctx, r) : TRUE
  IN  IF ok THEN RecordSingle(w1, t, kind, out, ctx)
      ELSE [w1 EXCEPT !.nodes[t].data.status = "error",
                      !.nodes[t].data.error = AgentError]

\* request r has run to its end and none of its saves failed
Ran(r) == pc[r] = "done" /\ writes[r] > 0 /\ ~saveFailed[r]

\* the run of request r, with the agent outcomes it had, executed on d
Replay(r, d) ==
  IF IsSingle(r) THEN RunSingle(d, req[r], resp[r].status = 200, r)
  ELSE RunFull(d, [i \in DOMAIN d.nodes |->
                     wf[r].nodes[i].data.status = "success"], r)

\* the workflow as it was before the first request
Authored == NewWorkflow([i \in NodeIdx |-> db.nodes[i].data.agentType])

\* what the claim compares: status, progress, and every node's status and
\* result
View(d) ==
  [status |-> d.status, progress |-> d.progress,
   nodes |-> [i \in DOMAIN d.nodes |->
                [status |-> d.nodes[i].data.status,
                 result |-> d.nodes[i].data.result]]]

SerialViews(r1, r2) ==
  {View(Replay(r2, Replay(r1, Authored))),
   View(Replay(r1, Replay(r2, Authored)))}

\* C20: two runs that do not overlap leave the outcome of executing them one
\* after the other; two runs that overlap work on their own copies of the
\* document and store it whole, and then the stored status, progress or node
\* status/result can differ from that outcome in either order (the witness).
C20_SerialRunsLeaveSerialOutcome ==
  \A r1, r2 \in Reqs :
    (r1 # r2 /\ Ran(r1) /\ Ran(r2) /\ ~overlap[r1] /\ ~overlap[r2]) =>
      View(db) \in SerialViews(r1, r2)

\* a full run and a single-node run overlapped; both have finished; the
\* single-node run stored its stale copy over a checkpoint of the full run,
\* and what is stored is the outcome of neither order
C20_Witness ==
  \E r1, r2 \in Reqs :
    /\ IsFull(r1) /\ IsSingle(r2)
    /\ Ran(r1) /\ Ran(r2)
    /\ overlap[r1] /\ overlap[r2]
    /\ View(db) \notin SerialViews(r1, r2)
    /\ db.status # wf[r1].status
    /\ \E i \in NodeIdx :
         /\ wf[r1].nodes[i].data.status = "success"
         /\ db.nodes[i].data.status = "pending"

\* C21: in the document of a full run, in every state of the run and also
\* when a save has failed, no node id is both in progress.completedNodes and
\* in progress.errors, and every node in completedNodes has status 'success'.
C21_CompletedAndErrorsDisjoint ==
  \A r \in Reqs :
    (IsFull(r) /\ pc[r] \notin {"full"}) =>
      /\ Range(Completed(wf[r])) \cap Range(ErrorIds(wf[r])) = {}
      /\ \A i \in DOMAIN wf[r].nodes :
           wf[r].nodes[i].id \in Range(Completed(wf[r])) =>
             wf[r].nodes[i].data.status = "success"

\* the document holds no trace of an execution in progress
NothingRunning(d) ==
  /\ d.status # "running"
  /\ \A i \in DOMAIN d.nodes : d.nodes[i].data.status # "running"

\* request r has been answered
Responded(r) == pc[r] = "done"

\* every request so far was served alone and no save has failed
ServedOneAtATime ==
  \A x \in Reqs : ~overlap[x] /\ ~saveFailed[x]

C23_ResultProducedByNodeKind ==
  /\ \A i \in NodeIdx :
       db.nodes[i].data.result # NoResult =>
         db.nodes[i].data.result.by = db.nodes[i].data.agentType
  /\ \A r \in Reqs : \A k \in AllKinds :
       (IsSingle(r) /\ pc[r] = "singleAgent") =>
         LET c == ctxIn[r][Target(r)] IN
           /\ c.previousResults[k] # NoResult => c.previousResults[k].by = k
           /\ (k \in RecognizedKinds /\ c[SlotOf(k)] # NoResult) =>
                c[SlotOf(k)].by = k

====
